---- MODULE Spec2Model ----
(***************************************************************************)
(* A model of minesweeper.py: the Minesweeper board (mine placement and    *)
(* the nearby_mines hint), the Sentence class and the MinesweeperAI        *)
(* knowledge base with its deduction loop and its two move selectors.      *)
(*                                                                         *)
(* A cell is the pair <<i, j>>.  A Sentence is the record                  *)
(* [cells |-> set of cells, count |-> integer].  self.knowledge is a       *)
(* Python list, so it is a sequence here, and list.remove(x) removes the   *)
(* first element equal (by Sentence.__eq__) to x.                          *)
(***************************************************************************)
EXTENDS Integers, Sequences, FiniteSets, TLC

\* ------------------------------------------------------------------ bounds
\* Largest number of cells of a grid: every height x width up to it is explored.
MaxCells == 9
\* Largest number of mines on a board.
MaxMines == 1
\* Largest number of add_knowledge calls in one game, except on the 3x3 grid,
\* where every game is played to the end.
MaxHints == 3
\* Largest grid, in cells, and largest number of add_knowledge calls of a game
\* whose moves are asked for.
MaxMoveCells == 6
MaxMoveHints == 3
\* Largest number of add_knowledge calls of a caller that honours no precondition.
MaxCalls == 1
\* Largest number of iterations of the while loop followed within one call.
MaxPasses == 6
\* Largest grid, in cells, of a game in which the caller also asserts facts
\* through mark_mine and mark_safe.
MaxMarkCells == 6
\* Largest grid, in cells, of a game in which every public method of the AI is
\* called, the move selectors included.
MaxCallCells == 5
\* Largest grid, in cells, on which the caller may also assert what is false
\* (a wrong flag): there any cell of the grid is marked either way.
MaxWrongCells == 3
\* Largest grid, in cells, and largest number of add_knowledge calls of a game
\* in which the loop visits the sentences in every order.
MaxOrderCells == 6
MaxOrderHints == 4
\* Largest grid, in cells, a Sentence exercised on its own draws its cells
\* from; its count ranges over -1..MaxSentenceCells + 1.
MaxSentenceCells == 4

VARIABLES
    height,      \* MinesweeperAI.height (= Minesweeper.height)
    width,       \* MinesweeperAI.width  (= Minesweeper.width)
    board,       \* Minesweeper.mines: the cells of the board that hold a mine
    moves_made,  \* MinesweeperAI.moves_made
    mines,       \* MinesweeperAI.mines
    safes,       \* MinesweeperAI.safes
    knowledge,   \* MinesweeperAI.knowledge, a list of Sentences
    calls,       \* the number of add_knowledge calls made so far
    passes,      \* the iterations of the while loop run by the current or last call
    pc,          \* "idle": between calls; "loop": inside add_knowledge's while loop
    call,        \* the add_knowledge call in progress, [op, cell, count], or NoCall
    ret,         \* the last call completed and its value, [op, value], or NoRet
    sentence     \* a Sentence object of its own, held by no knowledge base

vars == <<height, width, board, moves_made, mines, safes, knowledge, calls, passes, pc,
          call, ret, sentence>>

\* Python's None, as returned by the move selectors.
None == <<>>

\* ------------------------------------------------------------ class Sentence
Sentence(cells, count) == [cells |-> cells, count |-> count]

\* Mutation: known_mines left as a stub that knows nothing.
known_mines_stub(s) == {}

\* Mutation: known_mines that also answers when the count exceeds the cells.
known_mines_atmost(s) == IF Cardinality(s.cells) <= s.count THEN s.cells ELSE {}

\* Sentence.known_mines
known_mines(s) == IF Cardinality(s.cells) = s.count THEN s.cells ELSE {}

\* Mutation: known_safes with the test of known_mines.
known_safes_full(s) == IF Cardinality(s.cells) = s.count THEN s.cells ELSE {}

\* Sentence.known_safes
known_safes(s) == IF s.count = 0 THEN s.cells ELSE {}

\* Mutation: mark_mine that forgets to decrease the count.
Sentence_mark_mine_keep(s, cell) ==
    IF cell \in s.cells
    THEN [cells |-> s.cells \ {cell}, count |-> s.count]
    ELSE s

\* Mutation: mark_mine that decreases the count without looking for the cell.
Sentence_mark_mine_blind(s, cell) ==
    [cells |-> s.cells \ {cell}, count |-> s.count - 1]

\* Sentence.mark_mine
Sentence_mark_mine(s, cell) ==
    IF cell \in s.cells
    THEN [cells |-> s.cells \ {cell}, count |-> s.count - 1]
    ELSE s

\* Mutation: mark_safe that decreases the count as mark_mine does.
Sentence_mark_safe_dec(s, cell) ==
    IF cell \in s.cells
    THEN [cells |-> s.cells \ {cell}, count |-> s.count - 1]
    ELSE s

\* Sentence.mark_safe
Sentence_mark_safe(s, cell) ==
    IF cell \in s.cells
    THEN [cells |-> s.cells \ {cell}, count |-> s.count]
    ELSE s

\* ------------------------------------------------------- class Minesweeper
\* Mutation: the neighbourhood without the clipping to the grid.
Neighbors_wide(cell) ==
    {c \in ((cell[1] - 1)..(cell[1] + 1)) \X ((cell[2] - 1)..(cell[2] + 1)) :
        c[1] # cell[1] \/ c[2] # cell[2]}

\* The cells within one row and column of `cell`, the cell itself excluded,
\* clipped to the grid (the loops of nearby_mines and of add_knowledge).
Neighbors(cell) ==
    {c \in ((cell[1] - 1)..(cell[1] + 1)) \X ((cell[2] - 1)..(cell[2] + 1)) :
        /\ (c[1] # cell[1] \/ c[2] # cell[2])
        /\ 0 <= c[1] /\ c[1] < height
        /\ 0 <= c[2] /\ c[2] < width}

\* Minesweeper.nearby_mines
nearby_mines(cell) == Cardinality(Neighbors(cell) \cap board)

\* The cells of the grid: row i in range(height), column j in range(width).
GridCells == (0..(height - 1)) \X (0..(width - 1))

\* ---------------------------------------------------- class MinesweeperAI
\* The AI object as a value, for the operators below.
Self == [moves_made |-> moves_made, mines |-> mines, safes |-> safes,
         knowledge |-> knowledge]

\* Mutation: mark_mine that records the mine and leaves the sentences alone.
mark_mine_local(ai, cell) == [ai EXCEPT !.mines = ai.mines \cup {cell}]

\* MinesweeperAI.mark_mine
mark_mine(ai, cell) ==
    [ai EXCEPT !.mines = ai.mines \cup {cell},
               !.knowledge = [k \in DOMAIN ai.knowledge |->
                                 Sentence_mark_mine(ai.knowledge[k], cell)]]

\* Mutation: mark_safe that keeps the two sets disjoint by taking the cell out
\* of mines.
mark_safe_exclusive(ai, cell) ==
    [ai EXCEPT !.safes = ai.safes \cup {cell},
               !.mines = ai.mines \ {cell},
               !.knowledge = [k \in DOMAIN ai.knowledge |->
                                 Sentence_mark_safe(ai.knowledge[k], cell)]]

\* MinesweeperAI.mark_safe
mark_safe(ai, cell) ==
    [ai EXCEPT !.safes = ai.safes \cup {cell},
               !.knowledge = [k \in DOMAIN ai.knowledge |->
                                 Sentence_mark_safe(ai.knowledge[k], cell)]]

\* `for cell in safes: self.mark_safe(cell)`
RECURSIVE MarkSafeEach(_, _)
MarkSafeEach(ai, cs) ==
    IF cs = {} THEN ai
    ELSE LET c == CHOOSE x \in cs : TRUE
         IN  MarkSafeEach(mark_safe(ai, c), cs \ {c})

\* `for cell in mines: self.mark_mine(cell)`
RECURSIVE MarkMineEach(_, _)
MarkMineEach(ai, cs) ==
    IF cs = {} THEN ai
    ELSE LET c == CHOOSE x \in cs : TRUE
         IN  MarkMineEach(mark_mine(ai, c), cs \ {c})

\* `for cell in self.safes: new_sentence.mark_safe(cell)`
RECURSIVE PruneSafes(_, _)
PruneSafes(s, cs) ==
    IF cs = {} THEN s
    ELSE LET c == CHOOSE x \in cs : TRUE
         IN  PruneSafes(Sentence_mark_safe(s, c), cs \ {c})

\* `for cell in self.mines: new_sentence.mark_mine(cell)`
RECURSIVE PruneMines(_, _)
PruneMines(s, cs) ==
    IF cs = {} THEN s
    ELSE LET c == CHOOSE x \in cs : TRUE
         IN  PruneMines(Sentence_mark_mine(s, c), cs \ {c})

\* list.remove(x): drop the first element equal to x.  A missing element
\* raises ValueError, which the subset pass catches and ignores.
ListRemove(seq, x) ==
    IF \E i \in DOMAIN seq : seq[i] = x
    THEN LET i == CHOOSE k \in DOMAIN seq :
                      seq[k] = x /\ \A m \in 1..(k - 1) : seq[m] # x
         IN  SubSeq(seq, 1, i - 1) \o SubSeq(seq, i + 1, Len(seq))
    ELSE seq

\* `for sentence in xs: lst.remove(sentence)`
RECURSIVE RemoveEach(_, _)
RemoveEach(seq, xs) ==
    IF xs = <<>> THEN seq
    ELSE RemoveEach(ListRemove(seq, Head(xs)), Tail(xs))

\* Mutation: the move is recorded only for a cell of the grid.
RecordMove_checked(ai, cell) ==
    IF cell \in GridCells
    THEN mark_safe([ai EXCEPT !.moves_made = ai.moves_made \cup {cell}], cell)
    ELSE ai

\* `self.moves_made.add(cell); self.mark_safe(cell)`
RecordMove(ai, cell) ==
    mark_safe([ai EXCEPT !.moves_made = ai.moves_made \cup {cell}], cell)

\* Mutation: the new sentence is appended as built, without pruning.
AddSentence_raw(ai, cell, count) ==
    LET a1 == RecordMove(ai, cell)
    IN  [a1 EXCEPT !.knowledge = Append(a1.knowledge, Sentence(Neighbors(cell), count))]

\* add_knowledge up to the while loop: record the move, mark the cell safe,
\* append the sentence over the neighbours and prune it.
AddSentence(ai, cell, count) ==
    LET a1  == RecordMove(ai, cell)
        new == PruneMines(PruneSafes(Sentence(Neighbors(cell), count), a1.safes),
                          a1.mines)
    IN  [a1 EXCEPT !.knowledge = Append(a1.knowledge, new)]

\* The resolution loop from sentence i on: `idx` collects the positions of
\* the sentences queued in resolved_sentences.
RECURSIVE ResolveFrom(_, _, _)
ResolveFrom(ai, i, idx) ==
    IF i > Len(ai.knowledge) THEN [ai |-> ai, idx |-> idx]
    ELSE LET s  == ai.knowledge[i]
             ks == known_safes(s)
             km == known_mines(s)
             a2 == MarkMineEach(MarkSafeEach(ai, ks), km)
             resolved == ks # {} \/ km # {} \/ a2.knowledge[i].cells = {}
         IN  ResolveFrom(a2, i + 1, IF resolved THEN Append(idx, i) ELSE idx)

\* Mutation: for each resolved sentence the head of the list is removed.
ResolutionPass_pop(ai) ==
    LET r == ResolveFrom(ai, 1, <<>>)
        n == Len(r.ai.knowledge)
    IN  [ai |-> [r.ai EXCEPT !.knowledge = SubSeq(r.ai.knowledge, Len(r.idx) + 1, n)],
         changed |-> r.idx # <<>>]

\* Mutation: the resolved sentences are marked but never removed.
ResolutionPass_keep(ai) ==
    LET r == ResolveFrom(ai, 1, <<>>)
    IN  [ai |-> r.ai, changed |-> r.idx # <<>>]

\* The first half of a pass: mark what resolved sentences tell, then remove
\* them (each queued object by the value it has when the loop is over).
ResolutionPass(ai) ==
    LET r  == ResolveFrom(ai, 1, <<>>)
        xs == [k \in DOMAIN r.idx |-> r.ai.knowledge[r.idx[k]]]
    IN  [ai |-> [r.ai EXCEPT !.knowledge = RemoveEach(r.ai.knowledge, xs)],
         changed |-> r.idx # <<>>]

\* The pairs (sentence, sentence2) of the nested loops that pass both tests,
\* in the order the loops visit them.
SubsetPairs(kn) ==
    LET n == Len(kn)
        all == [p \in 1..(n * n) |-> <<((p - 1) \div n) + 1, ((p - 1) % n) + 1>>]
        Hit(pr) == /\ kn[pr[1]].cells # kn[pr[2]].cells
                   /\ kn[pr[1]].cells \subseteq kn[pr[2]].cells
    IN  SelectSeq(all, Hit)

\* Mutation: the difference sentences are added but no superset is removed.
SubsetPass_keep(ai) ==
    LET kn    == ai.knowledge
        pairs == SubsetPairs(kn)
        new_sentences == [k \in DOMAIN pairs |->
                             Sentence(kn[pairs[k][2]].cells \ kn[pairs[k][1]].cells,
                                      kn[pairs[k][2]].count - kn[pairs[k][1]].count)]
    IN  [ai |-> [ai EXCEPT !.knowledge = kn \o new_sentences],
         changed |-> pairs # <<>>]

\* Mutation: the supersets are removed but no difference sentence is added.
SubsetPass_drop(ai) ==
    LET kn    == ai.knowledge
        pairs == SubsetPairs(kn)
        resolved_sentences == [k \in DOMAIN pairs |-> kn[pairs[k][2]]]
    IN  [ai |-> [ai EXCEPT !.knowledge = RemoveEach(kn, resolved_sentences)],
         changed |-> pairs # <<>>]

\* Mutation: the difference sentence keeps the count of the superset.
SubsetPass_count(ai) ==
    LET kn    == ai.knowledge
        pairs == SubsetPairs(kn)
        new_sentences == [k \in DOMAIN pairs |->
                             Sentence(kn[pairs[k][2]].cells \ kn[pairs[k][1]].cells,
                                      kn[pairs[k][2]].count)]
        resolved_sentences == [k \in DOMAIN pairs |-> kn[pairs[k][2]]]
    IN  [ai |-> [ai EXCEPT !.knowledge = RemoveEach(kn \o new_sentences,
                                                    resolved_sentences)],
         changed |-> pairs # <<>>]

\* The second half of a pass: derive the difference sentences, extend the
\* list with them, remove every sentence2 queued.
SubsetPass(ai) ==
    LET kn    == ai.knowledge
        pairs == SubsetPairs(kn)
        new_sentences == [k \in DOMAIN pairs |->
                             Sentence(kn[pairs[k][2]].cells \ kn[pairs[k][1]].cells,
                                      kn[pairs[k][2]].count - kn[pairs[k][1]].count)]
        resolved_sentences == [k \in DOMAIN pairs |-> kn[pairs[k][2]]]
    IN  [ai |-> [ai EXCEPT !.knowledge = RemoveEach(kn \o new_sentences,
                                                    resolved_sentences)],
         changed |-> pairs # <<>>]

\* Mutation: done is cleared by a resolved sentence only, so the loop ends
\* straight after a pass that derived difference sentences.
LoopBody_hasty(ai) ==
    LET r1 == ResolutionPass(ai)
        r2 == SubsetPass(r1.ai)
    IN  [ai |-> r2.ai, done |-> ~r1.changed]

\* One iteration of `while not done`.
LoopBody(ai) ==
    LET r1 == ResolutionPass(ai)
        r2 == SubsetPass(r1.ai)
    IN  [ai |-> r2.ai, done |-> ~r1.changed /\ ~r2.changed]

\* Mutation: make_safe_move that does not set the moves made aside.
make_safe_move_any(ai) == IF ai.safes = {} THEN {None} ELSE ai.safes

\* MinesweeperAI.make_safe_move: the values it can return.
make_safe_move(ai) ==
    LET moves == ai.safes \ ai.moves_made
    IN  IF moves = {} THEN {None} ELSE moves

\* MinesweeperAI.make_random_move: the values it can return.
make_random_move(ai) ==
    LET all   == (0..(width - 1)) \X (0..(height - 1))
        moves == (all \ ai.moves_made) \ ai.mines
    IN  IF moves = {} THEN {None} ELSE moves

\* ------------------------------------------------------------------ actions
\* No call is in progress.
NoCall == [op |-> "none", cell |-> None, count |-> 0]

\* No call has completed since the object was built or the last call began.
NoRet == [op |-> "none", value |-> None]

Returned(op, value) == [op |-> op, value |-> value]

Init ==
    /\ height \in 1..MaxCells
    /\ width \in 1..MaxCells
    /\ height * width <= MaxCells
    /\ board \in {b \in SUBSET ((0..(height - 1)) \X (0..(width - 1))) :
                     Cardinality(b) <= MaxMines}
    /\ moves_made = {}
    /\ mines = {}
    /\ safes = {}
    /\ knowledge = <<>>
    /\ calls = 0
    /\ passes = 0
    /\ pc = "idle"
    /\ call = NoCall
    /\ ret = NoRet
    /\ sentence = Sentence({}, 0)

Install(ai) ==
    /\ moves_made' = ai.moves_made
    /\ mines' = ai.mines
    /\ safes' = ai.safes
    /\ knowledge' = ai.knowledge

\* add_knowledge(cell, count), lines 201-231: control reaches the loop.
AddKnowledge(cell, count) ==
    /\ pc = "idle"
    /\ Install(AddSentence(Self, cell, count))
    /\ calls' = calls + 1
    /\ passes' = 0
    /\ pc' = "loop"
    /\ call' = [op |-> "add_knowledge", cell |-> cell, count |-> count]
    /\ ret' = NoRet
    /\ UNCHANGED <<height, width, board, sentence>>

\* A hint the game gives: a cell that is no mine and was not played, with
\* nearby_mines(cell).
ValidHint(cell, count) ==
    /\ cell \in GridCells
    /\ cell \notin board
    /\ cell \notin moves_made
    /\ count = nearby_mines(cell)

\* The game reveals a cell and hands its hint to the AI.
Reveal ==
    \E cell \in GridCells :
        /\ ValidHint(cell, nearby_mines(cell))
        /\ AddKnowledge(cell, nearby_mines(cell))

Hint ==
    /\ calls < MaxHints \/ (height = 3 /\ width = 3)
    /\ Reveal

\* The arguments of a caller that honours no precondition: cells on the grid
\* and one step outside it, counts inside and outside 0..8.
OpenCells == (-1..height) \X (-1..width)
OpenCounts == {-1, 0, 1, 9}

AnyCall ==
    \E cell \in OpenCells, count \in OpenCounts :
        /\ calls < MaxCalls
        /\ AddKnowledge(cell, count)

\* One iteration of the while loop; add_knowledge returns when done is set.
Pass ==
    /\ pc = "loop"
    /\ passes < MaxPasses
    /\ passes' = passes + 1
    /\ LET r == LoopBody(Self)
       IN  /\ Install(r.ai)
           /\ pc' = IF r.done THEN "idle" ELSE "loop"
           /\ call' = IF r.done THEN NoCall ELSE call
           /\ ret' = IF r.done THEN Returned("add_knowledge", None) ELSE ret
    /\ UNCHANGED <<height, width, board, calls, sentence>>

\* Mutation: make_safe_move that records the move it returns.
MakeSafeMove_played ==
    /\ pc = "idle"
    /\ \E m \in make_safe_move(Self) :
           /\ ret' = Returned("make_safe_move", m)
           /\ moves_made' = IF m = None THEN moves_made ELSE moves_made \cup {m}
    /\ UNCHANGED <<height, width, board, mines, safes, knowledge, calls,
                   passes, pc, call, sentence>>

MakeSafeMove ==
    /\ pc = "idle"
    /\ \E m \in make_safe_move(Self) : ret' = Returned("make_safe_move", m)
    /\ UNCHANGED <<height, width, board, moves_made, mines, safes, knowledge, calls,
                   passes, pc, call, sentence>>

MakeRandomMove ==
    /\ pc = "idle"
    /\ \E m \in make_random_move(Self) : ret' = Returned("make_random_move", m)
    /\ UNCHANGED <<height, width, board, moves_made, mines, safes, knowledge, calls,
                   passes, pc, call, sentence>>

\* The game as the knowledge base sees it: hints arrive and are worked off.
Next == Hint \/ Pass

Spec == Init /\ [][Next]_vars

\* The game with the move selectors called between hints.
HintBeforeMove == calls < MaxMoveHints /\ Reveal

NextMoves == HintBeforeMove \/ Pass \/ MakeSafeMove \/ MakeRandomMove

InitMoves == Init /\ height * width <= MaxMoveCells

SpecMoves == InitMoves /\ [][NextMoves]_vars

\* The 3x3 game with its single mine at (2, 2), played to the end.
InitScenario ==
    /\ Init
    /\ height = 3
    /\ width = 3
    /\ board = {<<2, 2>>}

NextScenario == Reveal \/ Pass

SpecScenario == InitScenario /\ [][NextScenario]_vars

\* A caller that honours no precondition of add_knowledge.  Such a caller
\* consults no board, so the board is left empty.
InitOpen == Init /\ board = {}

NextOpen == AnyCall \/ Pass

SpecOpen == InitOpen /\ [][NextOpen]_vars

\* mark_mine(cell), called from outside: the caller asserts that a cell of the
\* grid is a mine.
MarkMine(cell) ==
    /\ pc = "idle"
    /\ Install(mark_mine(Self, cell))
    /\ ret' = Returned("mark_mine", None)
    /\ UNCHANGED <<height, width, board, calls, passes, pc, call, sentence>>

\* mark_safe(cell), called from outside: the caller asserts that a cell of the
\* grid is safe.
MarkSafe(cell) ==
    /\ pc = "idle"
    /\ Install(mark_safe(Self, cell))
    /\ ret' = Returned("mark_safe", None)
    /\ UNCHANGED <<height, width, board, calls, passes, pc, call, sentence>>

\* What a caller asserts of a cell of the grid: the truth, or on the
\* smallest grids anything.
MayAssert(cell, mine) ==
    \/ (cell \in board) = mine
    \/ height * width <= MaxWrongCells

ExternalMarkMine ==
    \E cell \in GridCells : MayAssert(cell, TRUE) /\ MarkMine(cell)

ExternalMarkSafe ==
    \E cell \in GridCells : MayAssert(cell, FALSE) /\ MarkSafe(cell)

\* The game with facts asserted by the caller between hints.
InitMarks == Init /\ height * width <= MaxMarkCells

NextMarks ==
    \/ Reveal
    \/ Pass
    \/ ExternalMarkMine
    \/ ExternalMarkSafe

SpecMarks == InitMarks /\ [][NextMarks]_vars

\* The game with every public method of the AI called between hints.
InitCalls == Init /\ height * width <= MaxCallCells

NextCalls ==
    \/ Reveal
    \/ Pass
    \/ ExternalMarkMine
    \/ ExternalMarkSafe
    \/ MakeSafeMove
    \/ MakeRandomMove

SpecCalls == InitCalls /\ [][NextCalls]_vars

\* self.knowledge with its sentences in the order p, a permutation of the
\* positions of the list.
Reordered(ai, p) ==
    [ai EXCEPT !.knowledge = [k \in DOMAIN ai.knowledge |-> ai.knowledge[p[k]]]]

\* One iteration of the while loop with the sentences visited in any order:
\* the two `for sentence in self.knowledge` loops run over the reordered list.
PassInOrder ==
    /\ pc = "loop"
    /\ passes < MaxPasses
    /\ passes' = passes + 1
    /\ \E p \in Permutations(DOMAIN knowledge) :
           LET r == LoopBody(Reordered(Self, p))
           IN  /\ Install(r.ai)
               /\ pc' = IF r.done THEN "idle" ELSE "loop"
               /\ call' = IF r.done THEN NoCall ELSE call
               /\ ret' = IF r.done THEN Returned("add_knowledge", None) ELSE ret
    /\ UNCHANGED <<height, width, board, calls, sentence>>

\* The game with the visiting order of the loop left open.
HintInOrder == calls < MaxOrderHints /\ Reveal

NextOrder == HintInOrder \/ PassInOrder

InitOrder == Init /\ height * width <= MaxOrderCells

SpecOrder == InitOrder /\ [][NextOrder]_vars

\* A Sentence on its own: Sentence(cells, count) is built from any cells of
\* the grid and any count around 0..len(cells), then its methods are called.
InitSentence ==
    /\ height \in 1..MaxSentenceCells
    /\ width \in 1..MaxSentenceCells
    /\ height * width <= MaxSentenceCells
    /\ board = {}
    /\ moves_made = {}
    /\ mines = {}
    /\ safes = {}
    /\ knowledge = <<>>
    /\ calls = 0
    /\ passes = 0
    /\ pc = "idle"
    /\ call = NoCall
    /\ ret = NoRet
    /\ sentence \in {Sentence(cells, count) :
                        cells \in SUBSET GridCells,
                        count \in -1..(MaxSentenceCells + 1)}

\* What no method of Sentence touches.
SentenceFrame ==
    UNCHANGED <<height, width, board, moves_made, mines, safes, knowledge, calls,
                passes, pc, call>>

SentenceKnownMines ==
    /\ ret' = Returned("known_mines", known_mines(sentence))
    /\ UNCHANGED sentence
    /\ SentenceFrame

SentenceKnownSafes ==
    /\ ret' = Returned("known_safes", known_safes(sentence))
    /\ UNCHANGED sentence
    /\ SentenceFrame

SentenceMarkMine(cell) ==
    /\ sentence' = Sentence_mark_mine(sentence, cell)
    /\ ret' = Returned("mark_mine", None)
    /\ SentenceFrame

SentenceMarkSafe(cell) ==
    /\ sentence' = Sentence_mark_safe(sentence, cell)
    /\ ret' = Returned("mark_safe", None)
    /\ SentenceFrame

SentenceMarkMineAny == \E cell \in GridCells : SentenceMarkMine(cell)

SentenceMarkSafeAny == \E cell \in GridCells : SentenceMarkSafe(cell)

NextSentence ==
    \/ SentenceKnownMines
    \/ SentenceKnownSafes
    \/ SentenceMarkMineAny
    \/ SentenceMarkSafeAny

SpecSentence == InitSentence /\ [][NextSentence]_vars

\* ------------------------------------------------------------------ claims

\* C1. Soundness of deduction: in every state reached by valid hints, every
\* cell in mines is a mine of the board and no cell in safes is one.
C1_Soundness == mines \subseteq board /\ safes \cap board = {}

\* Both a mine and a safe cell not yet played have been deduced.
C1_Witness ==
    /\ pc = "idle"
    /\ mines # {}
    /\ safes \ moves_made # {}

\* C2. After any add_knowledge call, mines and safes are disjoint.
C2_Disjoint == (pc = "idle" /\ calls > 0) => mines \cap safes = {}

\* A call has returned with both sets non-empty.
C2_Witness ==
    /\ pc = "idle"
    /\ calls > 1
    /\ mines # {}
    /\ safes # {}

\* C3. Fixpoint termination: every add_knowledge call returns - the loop,
\* once entered, reaches a pass with no resolved sentence and no strict-subset
\* pair after finitely many passes.  Each pass counts in `passes`, so a loop
\* that is still running has run fewer than MaxPasses passes, and the pass it
\* runs next is never cut off.
C3_Termination == pc = "loop" => passes < MaxPasses

\* The loop is inside a call and the pass about to run is not the last.
C3_Witness ==
    /\ pc = "loop"
    /\ passes >= 2
    /\ ~LoopBody(Self).done

\* The cells make_safe_move may return: safe and not yet played.
SafeCandidates == safes \ moves_made

\* C4. make_safe_move returns a member of safes \ moves_made when there is
\* one and None exactly when there is none; what it returns is never a move
\* made nor a known mine.
C4_SafeMove ==
    ret.op = "make_safe_move" =>
        /\ (SafeCandidates # {} => ret.value \in SafeCandidates)
        /\ (SafeCandidates = {} <=> ret.value = None)
        /\ ret.value \notin moves_made
        /\ ret.value \notin mines

\* make_safe_move returned a cell while mines are known and moves were made.
C4_Witness ==
    /\ ret.op = "make_safe_move"
    /\ ret.value # None
    /\ mines # {}
    /\ moves_made # {}

\* The cells make_random_move should choose among: the cells of the grid
\* that are neither played nor known mines.
RandomCandidates == (GridCells \ moves_made) \ mines

\* C5. The cells make_random_move can return are exactly the in-bounds
\* cells in neither moves_made nor mines, and it returns None exactly when
\* there is none.
C5_RandomMove ==
    ret.op = "make_random_move" =>
        /\ (RandomCandidates # {} => ret.value \in RandomCandidates)
        /\ (RandomCandidates = {} <=> ret.value = None)

\* What the interface asks of add_knowledge's arguments: a cell of the grid
\* that was not played, and a count in 0..8.
Precondition(cell, count) ==
    /\ cell \in GridCells
    /\ cell \notin moves_made
    /\ count \in 0..8

\* A step that enters add_knowledge with arguments violating the precondition.
ViolatingCall ==
    /\ pc = "idle"
    /\ pc' = "loop"
    /\ ~Precondition(call'.cell, call'.count)

C7_NoDuplicates ==
    pc = "idle" =>
        \A i, j \in DOMAIN knowledge :
            i # j => knowledge[i].cells # knowledge[j].cells

\* C7 as amended. Sentences with identical cell sets do coexist (a sentence
\* is appended without looking for its cell set in the list), but any two
\* held sentences with identical cell sets are the same sentence twice: their
\* counts are identical too.
C7_EqualDuplicates ==
    \A i, j \in DOMAIN knowledge :
        knowledge[i].cells = knowledge[j].cells =>
            knowledge[i].count = knowledge[j].count

\* A call has returned leaving the same sentence twice in the list.
C7_Witness ==
    /\ pc = "idle"
    /\ \E i, j \in DOMAIN knowledge :
           i # j /\ knowledge[i] = knowledge[j]

\* C8. On the 3x3 grid with its single mine at (2, 2): after
\* add_knowledge((0, 0), 0) the cells (0, 1), (1, 0) and (1, 1) are in safes,
\* and once the hints of all eight cells without a mine have been added, in
\* any order, (2, 2) is in mines.
C8_Scenario ==
    pc = "idle" =>
        /\ <<0, 0>> \in moves_made =>
               {<<0, 1>>, <<1, 0>>, <<1, 1>>} \subseteq safes
        /\ moves_made = GridCells \ board => <<2, 2>> \in mines

\* All eight hints have been added and the last call has returned.
C8_Witness ==
    /\ pc = "idle"
    /\ board = {<<2, 2>>}
    /\ moves_made = GridCells \ board

\* The pairs (i, j) of held sentences with the cells of i a strict subset of
\* the cells of j.
StrictPairs(kn) ==
    {pr \in (DOMAIN kn) \X (DOMAIN kn) :
        /\ kn[pr[1]].cells \subseteq kn[pr[2]].cells
        /\ kn[pr[1]].cells # kn[pr[2]].cells}

\* The sentence the subset rule derives from A and B.
Difference(A, B) == Sentence(B.cells \ A.cells, B.count - A.count)

\* A sentence less the cells known safe (sf) or known mines (mn).
Pruned(s, sf, mn) ==
    Sentence((s.cells \ sf) \ mn, s.count - Cardinality(s.cells \cap mn))

Held(s, kn) == \E k \in DOMAIN kn : kn[k] = s

RECURSIVE SumCounts(_, _)
SumCounts(kn, ks) ==
    IF ks = {} THEN 0
    ELSE LET k == CHOOSE x \in ks : TRUE
         IN  kn[k].count + SumCounts(kn, ks \ {k})

\* Sentence s has been split by the subset rule: held sentences with pairwise
\* disjoint cell sets cover its cells, and their counts add up to its count.
Split(s, kn) ==
    \E ks \in SUBSET DOMAIN kn :
        /\ \A a, b \in ks : a # b => kn[a].cells \cap kn[b].cells = {}
        /\ UNION {kn[k].cells : k \in ks} = s.cells
        /\ SumCounts(kn, ks) = s.count

\* A pass that finds a strict-subset pair is never the last one, and a pass
\* resolves every sentence whose count is 0: so {A, B, C} = 1 and {A, B} = 1
\* give {C} = 0 in one pass and C in safes by the end of the call.
ZeroDifferenceResolved ==
    /\ pc' = "idle" => StrictPairs(knowledge) = {}
    /\ \A k \in DOMAIN knowledge :
           knowledge[k].count = 0 => knowledge[k].cells \subseteq safes'

\* C9 as claimed. For any two held sentences A and B with the cells of A a
\* strict subset of those of B, after one pass of the loop the sentence
\* (B.cells - A.cells, B.count - A.count) is present in the knowledge base
\* (as derived, or less the cells marked meanwhile) or all its cells have
\* become certainties; in particular {A, B, C} = 1 and {A, B} = 1 end with C safe.
C9_SubsetRule ==
    [][pc = "loop" =>
          /\ \A pr \in StrictPairs(knowledge) :
                 LET D == Difference(knowledge[pr[1]], knowledge[pr[2]])
                 IN  \/ Held(D, knowledge')
                     \/ Held(Pruned(D, safes', mines'), knowledge')
                     \/ D.cells \subseteq safes' \cup mines'
          /\ ZeroDifferenceResolved
      ]_vars

\* C9 as amended. After one pass the difference sentence, less the cells
\* marked meanwhile, is present in the knowledge base, or all its cells have
\* become certainties, or the same pass has split it further by the subset
\* rule into held sentences that cover its cells disjointly with counts adding
\* up to its count; in particular {A, B, C} = 1 and {A, B} = 1 end with C safe.
C9_SubsetRuleSplit ==
    [][pc = "loop" =>
          /\ \A pr \in StrictPairs(knowledge) :
                 LET D == Difference(knowledge[pr[1]], knowledge[pr[2]])
                     P == Pruned(D, safes', mines')
                 IN  \/ Held(D, knowledge')
                     \/ Held(P, knowledge')
                     \/ D.cells \subseteq safes' \cup mines'
                     \/ Split(P, knowledge')
          /\ ZeroDifferenceResolved
      ]_vars

\* A pass is about to run on a list holding a strict-subset pair whose
\* difference has count 0.
C9_Witness ==
    /\ pc = "loop"
    /\ \E pr \in StrictPairs(knowledge) :
           /\ knowledge[pr[1]].cells # {}
           /\ knowledge[pr[1]].count = knowledge[pr[2]].count

\* C10. Every sentence held satisfies 0 <= count <= |cells|, in every state
\* reached by valid hints.
C10_CountInRange ==
    \A k \in DOMAIN knowledge :
        /\ 0 <= knowledge[k].count
        /\ knowledge[k].count <= Cardinality(knowledge[k].cells)

\* The loop has run a pass, a mine is known (so mark_mine has acted on the
\* sentences) and a sentence of two cells or more is still held.
C10_Witness ==
    /\ pc = "loop"
    /\ passes >= 1
    /\ mines # {}
    /\ \E k \in DOMAIN knowledge : Cardinality(knowledge[k].cells) >= 2

\* C11. Monotonicity: across any sequence of add_knowledge, mark_mine,
\* mark_safe, make_safe_move and make_random_move calls, mines and safes only
\* grow: every cell in either set before a step is still in it after the step.
C11_Monotone == [][mines \subseteq mines' /\ safes \subseteq safes']_vars

\* After hints, marks from outside and deductions, a move selector has
\* returned while a cell is held in both sets.
C11_Witness ==
    /\ ret.op \in {"make_safe_move", "make_random_move"}
    /\ calls > 0
    /\ mines \cap safes # {}

\* C12. For every Sentence (cells, count): known_mines() is cells when
\* count = len(cells) and the empty set otherwise; known_safes() is cells when
\* count = 0 and the empty set otherwise; so count = 0 gives known_safes() =
\* cells and known_mines() empty, and for non-empty cells count = len(cells)
\* gives known_mines() = cells and known_safes() empty.
C12_KnownSets ==
    LET cells == sentence.cells
        count == sentence.count
    IN  /\ ret.op = "known_mines" =>
               ret.value = IF count = Cardinality(cells) THEN cells ELSE {}
        /\ ret.op = "known_safes" =>
               ret.value = IF count = 0 THEN cells ELSE {}
        /\ count = 0 =>
               known_safes(sentence) = cells /\ known_mines(sentence) = {}
        /\ (cells # {} /\ count = Cardinality(cells)) =>
               known_mines(sentence) = cells /\ known_safes(sentence) = {}

\* known_mines has returned the cells of a sentence all of whose cells are
\* mines.
C12_Witness ==
    /\ ret.op = "known_mines"
    /\ sentence.cells # {}
    /\ sentence.count = Cardinality(sentence.cells)
    /\ ret.value = sentence.cells

\* C13. Sentence.mark_mine(cell) with the cell in cells removes it and
\* decreases count by exactly 1; Sentence.mark_safe(cell) with the cell in
\* cells removes it and leaves count as it is; either one, for a cell not in
\* cells, leaves both cells and count as they are.
C13_MarkFrame ==
    [][\A cell \in GridCells :
          /\ SentenceMarkMine(cell) =>
                 IF cell \in sentence.cells
                 THEN /\ sentence'.cells = sentence.cells \ {cell}
                      /\ sentence'.count = sentence.count - 1
                 ELSE /\ sentence'.cells = sentence.cells
                      /\ sentence'.count = sentence.count
          /\ SentenceMarkSafe(cell) =>
                 IF cell \in sentence.cells
                 THEN /\ sentence'.cells = sentence.cells \ {cell}
                      /\ sentence'.count = sentence.count
                 ELSE /\ sentence'.cells = sentence.cells
                      /\ sentence'.count = sentence.count
      ]_vars

\* A count below every count a sentence is built with: mark_mine has removed
\* a cell, and mark_safe was the last call on what is left.
C13_Witness ==
    /\ ret.op = "mark_safe"
    /\ sentence.cells # {}
    /\ sentence.count = -2

\* C14. Redundant marking is a silent no-op: in any reachable state,
\* mark_mine(c) for a cell already in mines and mark_safe(c) for a cell
\* already in safes leave moves_made, mines, safes and the cells and count of
\* every held sentence unchanged.
C14_RedundantMark ==
    [][\A cell \in GridCells :
          /\ (MarkMine(cell) /\ cell \in mines) =>
                 UNCHANGED <<moves_made, mines, safes, knowledge>>
          /\ (MarkSafe(cell) /\ cell \in safes) =>
                 UNCHANGED <<moves_made, mines, safes, knowledge>>
      ]_vars

\* The last call was a mark_safe, and every safe cell is a move made: the
\* cell it marked had been marked by add_knowledge before.  Sentences are held.
C14_Witness ==
    /\ ret.op = "mark_safe"
    /\ safes # {}
    /\ safes = moves_made
    /\ knowledge # <<>>

\* C15. make_safe_move and make_random_move are pure reads: in any state,
\* calling either leaves moves_made, mines, safes and the held sentences
\* unchanged.
C15_PureReads ==
    [][(MakeSafeMove \/ MakeRandomMove) =>
          UNCHANGED <<moves_made, mines, safes, knowledge>>]_vars

\* make_random_move has returned a cell while sentences are held and a safe
\* cell is still to be played.
C15_Witness ==
    /\ ret.op = "make_random_move"
    /\ ret.value # None
    /\ knowledge # <<>>
    /\ safes \ moves_made # {}

\* C16. Closure on return: whenever add_knowledge returns after a valid hint,
\* every sentence still held has a non-empty cell set with
\* 0 < count < len(cells), and no held sentence's cell set is a strict subset
\* of another held sentence's cell set.
C16_Closure ==
    (pc = "idle" /\ calls > 0) =>
        /\ \A k \in DOMAIN knowledge :
               /\ knowledge[k].cells # {}
               /\ 0 < knowledge[k].count
               /\ knowledge[k].count < Cardinality(knowledge[k].cells)
        /\ StrictPairs(knowledge) = {}

\* A call has returned after three passes or more and holds two sentences
\* over different cell sets.
C16_Witness ==
    /\ pc = "idle"
    /\ ret.op = "add_knowledge"
    /\ passes >= 3
    /\ \E i, j \in DOMAIN knowledge : knowledge[i].cells # knowledge[j].cells

\* C17. Sentences stay consistent with the certainty sets: after every
\* completed add_knowledge, mark_mine or mark_safe call, no held sentence
\* contains a cell that is in safes or in mines.
C17_Consistent ==
    pc = "idle" =>
        \A k \in DOMAIN knowledge :
            knowledge[k].cells \cap (safes \cup mines) = {}

\* An add_knowledge call has returned after three passes or more, a
\* mark_safe call from outside has followed it, and a sentence of two cells
\* or more is held.
C17_Witness ==
    /\ pc = "idle"
    /\ ret.op = "mark_safe"
    /\ passes >= 3
    /\ \E k \in DOMAIN knowledge : Cardinality(knowledge[k].cells) >= 2

Abs(n) == IF n < 0 THEN -n ELSE n

\* The 8-neighbourhood of (r, c) clipped to the grid, as the claim spells it.
ClippedNeighborhood(cell) ==
    {c \in GridCells :
        /\ Abs(c[1] - cell[1]) <= 1
        /\ Abs(c[2] - cell[2]) <= 1
        /\ c # cell}

\* C18. For every grid size and every in-bounds cell (r, c), the sentence
\* that add_knowledge((r, c), count) builds before pruning has as its cells
\* exactly the cells (i, j) with |i - r| <= 1, |j - c| <= 1, (i, j) # (r, c),
\* 0 <= i < height and 0 <= j < width, and has the given count (so the
\* sentence appended is that sentence less the cells known safe or mines);
\* and after the call (r, c) is in both moves_made and safes.
C18_Neighbourhood ==
    [][/\ (pc = "idle" /\ pc' = "loop") =>
              LET built == Sentence(ClippedNeighborhood(call'.cell), call'.count)
              IN  /\ Sentence(Neighbors(call'.cell), call'.count) = built
                  /\ Len(knowledge') = Len(knowledge) + 1
                  /\ knowledge'[Len(knowledge')] = Pruned(built, safes', mines')
                  /\ call'.cell \in moves_made' \cap safes'
       /\ (pc = "loop" /\ pc' = "idle") => call.cell \in moves_made' \cap safes'
      ]_vars

\* The loop is entered for a hint at the corner (0, 0) of a grid of two rows
\* and two columns or more, and pruning has taken cells off the new sentence.
C18_Witness ==
    /\ pc = "loop"
    /\ passes = 0
    /\ call.cell = <<0, 0>>
    /\ height >= 2
    /\ width >= 2
    /\ knowledge[Len(knowledge)].cells # {}
    /\ knowledge[Len(knowledge)].cells # Neighbors(call.cell)

\* The total of len(cells) over the sentences of a list.
RECURSIVE SumCells(_)
SumCells(kn) ==
    IF kn = <<>> THEN 0
    ELSE Cardinality(Head(kn).cells) + SumCells(Tail(kn))

\* A step that is a pass of the loop and not its last: the pass has resolved
\* a sentence or found a strict-subset pair.
WorkingPass == pc = "loop" /\ pc' = "loop"

\* C19 as claimed. Termination measure: on every pass of the loop that is not
\* a no-op, either the total of len(cells) over all held sentences is
\* strictly smaller at the end of the pass than at its start, or the number of
\* held sentences is strictly smaller.
C19_Measure ==
    [][WorkingPass =>
          \/ SumCells(knowledge') < SumCells(knowledge)
          \/ Len(knowledge') < Len(knowledge)
      ]_vars

\* The number of sentences of a list that have n cells.
SizeCount(kn, n) ==
    Cardinality({k \in DOMAIN kn : Cardinality(kn[k].cells) = n})

\* The sizes of the sentences of kn2 are below those of kn1 in the multiset
\* order: at the largest size of which the two lists hold different numbers
\* of sentences, kn2 holds fewer.
SizesBelow(kn2, kn1) ==
    \E n \in 0..(height * width) :
        /\ SizeCount(kn2, n) < SizeCount(kn1, n)
        /\ \A m \in (n + 1)..(height * width) :
               SizeCount(kn2, m) = SizeCount(kn1, m)

\* C19 as amended. Termination measure: on every pass of the loop that is not
\* a no-op, the multiset of the sizes len(cells) of the held sentences is
\* strictly smaller at the end of the pass than at its start, in the multiset
\* order: at the largest size of which the number of held sentences differs,
\* fewer are held at the end.  (The total of len(cells) and the number of
\* sentences can both fail to decrease: one superset with two subsets is
\* replaced by two difference sentences.)
C19_MultisetMeasure ==
    [][WorkingPass => SizesBelow(knowledge', knowledge)]_vars

\* A pass is about to run that will find two strict-subset pairs or more
\* among the sentences it has not resolved.
C19_Witness ==
    /\ pc = "loop"
    /\ Len(SubsetPairs(ResolutionPass(Self).ai.knowledge)) >= 2

\* What a call leaves behind, the order and the multiplicity of the sentences
\* set aside.
Outcome(ai) ==
    [finished |-> TRUE, mines |-> ai.mines, safes |-> ai.safes,
     sentences |-> {ai.knowledge[k] : k \in DOMAIN ai.knowledge}]

Unfinished == [finished |-> FALSE, mines |-> {}, safes |-> {}, sentences |-> {}]

\* The outcome of the loop run from `ai` in the order of the code, within n
\* passes.
RECURSIVE Fixpoint(_, _)
Fixpoint(ai, n) ==
    IF n = 0 THEN Unfinished
    ELSE LET r == LoopBody(ai)
         IN  IF r.done THEN Outcome(r.ai) ELSE Fixpoint(r.ai, n - 1)

====
